---------------------------- MODULE Spec2Model ----------------------------
(***************************************************************************)
(* The validated calculation core of proportion_server.py: percent_of,     *)
(* solve_proportion, scale_by_ratio, direct_k and resize_dimensions.       *)
(*                                                                         *)
(* Python floats are IEEE-754 binary64.  The model keeps the arithmetic    *)
(* of that format (round to nearest, ties to even, gradual underflow,      *)
(* overflow to infinity, NaN) in a binary format of Precision significant  *)
(* bits.  A finite float is an integer number n of units of 2^-FracBits,   *)
(* the smallest subnormal; the two zeros are one value because every       *)
(* comparison of the code (!= 0, >= 0, > 0) identifies them.  Arguments    *)
(* are floats, as the signatures declare them.                             *)
(*                                                                         *)
(* Each operation is one action: a call runs from its first assert to its  *)
(* return or its AssertionError without touching anything but its own      *)
(* arguments and locals.  The action records what the caller observes      *)
(* (the values returned, or the message of the failed assert) and the      *)
(* statements the call executed, in order.                                 *)
(***************************************************************************)
EXTENDS Integers, Sequences, FiniteSets, TLC

\* ------------------------------------------------------------------------
\* Bounds of the float format and of the inputs
\* ------------------------------------------------------------------------
Precision == 5
FracBits == 6
MaxExp == 6
MaxIn == 3
MaxChain == 2

\* ------------------------------------------------------------------------
\* Float values
\* ------------------------------------------------------------------------
One == 2^FracBits
MinNormal == 2^(Precision - 1)
MaxFinite == (2^Precision - 1) * 2^(MaxExp + FracBits + 1 - Precision)

Fin(n) == [k |-> "fin", n |-> n]
PosInf == [k |-> "inf", n |-> 1]
NegInf == [k |-> "inf", n |-> -1]
NaN == [k |-> "nan", n |-> 0]
None == [k |-> "none", n |-> 0]
ZeroDivisionError == [k |-> "ZeroDivisionError", n |-> 0]
TypeError == [k |-> "TypeError", n |-> 0]

Abs(i) == IF i < 0 THEN -i ELSE i
Sgn(i) == IF i < 0 THEN -1 ELSE 1
SignOf(x) == IF x.n < 0 THEN -1 ELSE 1

IsFin(x) == x.k = "fin"
IsInf(x) == x.k = "inf"
IsNaN(x) == x.k = "nan"
IsNone(x) == x.k = "none"
IsNumber(x) == x.k \in {"fin", "inf", "nan"}
IsRaise(x) == x.k \in {"ZeroDivisionError", "TypeError"}

\* The quantum (a power of two, in units) of the binade that holds num/den.
RECURSIVE Quantum(_, _, _)
Quantum(num, den, g) ==
    IF num < 2^Precision * g * den THEN g ELSE Quantum(num, den, 2 * g)

\* num/den >= 0 units rounded to nearest, ties to even, exponent unbounded.
RoundMag(num, den) ==
    LET g == Quantum(num, den, 1)
        m == num \div (den * g)
        rem == num - m * den * g
        up == 2 * rem > den * g \/ (2 * rem = den * g /\ m % 2 = 1)
    IN  (IF up THEN m + 1 ELSE m) * g

\* The float nearest to sign * num/den; beyond the largest finite: infinity.
Round(sign, num, den) ==
    LET r == RoundMag(num, den)
    IN  IF r > MaxFinite THEN [k |-> "inf", n |-> sign] ELSE Fin(sign * r)

\* x * y
FMul(x, y) ==
    IF IsRaise(x) THEN x
    ELSE IF IsRaise(y) THEN y
    ELSE IF IsNone(x) \/ IsNone(y) THEN TypeError
    ELSE IF IsNaN(x) \/ IsNaN(y) THEN NaN
    ELSE IF IsInf(x) \/ IsInf(y)
         THEN IF (IsFin(x) /\ x.n = 0) \/ (IsFin(y) /\ y.n = 0)
              THEN NaN
              ELSE [k |-> "inf", n |-> SignOf(x) * SignOf(y)]
    ELSE Round(SignOf(x) * SignOf(y), Abs(x.n) * Abs(y.n), One)

\* x / y
FDiv(x, y) ==
    IF IsRaise(x) THEN x
    ELSE IF IsRaise(y) THEN y
    ELSE IF IsNone(x) \/ IsNone(y) THEN TypeError
    ELSE IF IsFin(y) /\ y.n = 0 THEN ZeroDivisionError
    ELSE IF IsNaN(x) \/ IsNaN(y) THEN NaN
    ELSE IF IsInf(x)
         THEN IF IsInf(y) THEN NaN
              ELSE [k |-> "inf", n |-> SignOf(x) * SignOf(y)]
    ELSE IF IsInf(y) THEN Fin(0)
    ELSE Round(SignOf(x) * SignOf(y), Abs(x.n) * One, Abs(y.n))

\* x + y (the core never adds; a caller that sums values or results does)
FAdd(x, y) ==
    IF IsRaise(x) THEN x
    ELSE IF IsRaise(y) THEN y
    ELSE IF IsNone(x) \/ IsNone(y) THEN TypeError
    ELSE IF IsNaN(x) \/ IsNaN(y) THEN NaN
    ELSE IF IsInf(x)
         THEN IF IsInf(y) /\ x.n # y.n THEN NaN ELSE x
    ELSE IF IsInf(y) THEN y
    ELSE Round(Sgn(x.n + y.n), Abs(x.n + y.n), 1)

\* Comparisons; every comparison with NaN is false except !=.
FEq(x, y) == IsNumber(x) /\ IsNumber(y) /\ ~IsNaN(x) /\ ~IsNaN(y) /\ x = y
FNe(x, y) == ~FEq(x, y)
FGe(x, y) ==
    /\ IsNumber(x) /\ IsNumber(y) /\ ~IsNaN(x) /\ ~IsNaN(y)
    /\ \/ x = y
       \/ IsInf(x) /\ x.n = 1
       \/ IsInf(y) /\ y.n = -1
       \/ IsFin(x) /\ IsFin(y) /\ x.n >= y.n
FGt(x, y) == FGe(x, y) /\ x # y

Zero == Fin(0)
Hundred == Round(1, 100 * One, 1)

\* ------------------------------------------------------------------------
\* The outcome of one call: the AssertionError message ("" when the call
\* returns), the returned values and the statements executed, in order.
\* ------------------------------------------------------------------------
Failed(msg, trail) == [failure |-> msg, result |-> <<>>, trail |-> trail]

\* The statements after the precondition checks: an arithmetic operation
\* that raises ends the call there; otherwise the debug record is written
\* and the values are returned.
Returned(vals, checks, arith) ==
    IF \E i \in 1..Len(vals) : IsRaise(vals[i])
    THEN LET i == CHOOSE j \in 1..Len(vals) :
                     IsRaise(vals[j]) /\ \A h \in 1..(j - 1) : ~IsRaise(vals[h])
         IN  Failed(vals[i].k, checks \o arith)
    ELSE [failure |-> "", result |-> vals,
          trail |-> checks \o arith \o <<"log", "return">>]

\* x rounded to a whole number, as round(x) for display would.
Rounded(x) ==
    IF IsFin(x)
    THEN Round(SignOf(x), ((2 * Abs(x.n) + One) \div (2 * One)) * One, 1)
    ELSE x

\* The percentage rounded before it is returned.
percent_of_rounded(part, whole) ==
    IF ~FNe(whole, Zero)
    THEN Failed("Division by zero: whole cannot be zero", <<"assert whole">>)
    ELSE Returned(<<Rounded(FMul(FDiv(part, whole), Hundred))>>,
                  <<"assert whole">>, <<"div", "mul">>)

percent_of(part, whole) ==
    IF ~FNe(whole, Zero)
    THEN Failed("Division by zero: whole cannot be zero", <<"assert whole">>)
    ELSE Returned(<<FMul(FDiv(part, whole), Hundred)>>,
                  <<"assert whole">>, <<"div", "mul">>)

\* "if not v" in place of "if v is None": a zero counts as missing.
NoneCountFalsy(values) ==
    Cardinality({i \in 1..Len(values) : IsNone(values[i]) \/ FEq(values[i], Zero)})
NoneCount(values) == Cardinality({i \in 1..Len(values) : IsNone(values[i])})

\* The four solutions of a*d = b*c.
missing_a(b, c, d) == FDiv(FMul(b, c), d)
\* A slip in the cross product: a*c in place of a*d.
missing_b_swapped(a, c, d) == FDiv(FMul(a, c), d)
missing_b(a, c, d) == FDiv(FMul(a, d), c)
\* The quotient upside down: b / (a*d).
missing_c_inverted(a, b, d) == FDiv(b, FMul(a, d))
missing_c(a, b, d) == FDiv(FMul(a, d), b)
missing_d(a, b, c) == FDiv(FMul(b, c), a)

\* The branch without its assert: the division itself meets the zero.
BranchUnchecked(divisor, label, missing) ==
    Returned(<<missing>>, <<"assert none_count">>, <<"mul", "div">>)

\* One branch: the assert on the branch's divisor, then its formula.
Branch(divisor, label, missing) ==
    IF ~FNe(divisor, Zero)
    THEN Failed("Division by zero: denominator", <<"assert none_count", label>>)
    ELSE Returned(<<missing>>, <<"assert none_count", label>>, <<"mul", "div">>)

\* The docstring's denominators b and d asserted in place of each branch's
\* own divisor.
solve_proportion_docstring(a, b, c, d) ==
    IF NoneCount(<<a, b, c, d>>) # 1
    THEN Failed("Exactly one value must be None", <<"assert none_count">>)
    ELSE IF IsNone(a) THEN Branch(d, "assert d", missing_a(b, c, d))
    ELSE IF IsNone(b) THEN Branch(d, "assert d", missing_b(a, c, d))
    ELSE IF IsNone(c) THEN Branch(b, "assert b", missing_c(a, b, d))
    ELSE Branch(b, "assert b", missing_d(a, b, c))

solve_proportion(a, b, c, d) ==
    IF NoneCount(<<a, b, c, d>>) # 1
    THEN Failed("Exactly one value must be None", <<"assert none_count">>)
    ELSE IF IsNone(a) THEN Branch(d, "assert d", missing_a(b, c, d))
    ELSE IF IsNone(b) THEN Branch(c, "assert c", missing_b(a, c, d))
    ELSE IF IsNone(c) THEN Branch(b, "assert b", missing_c(a, b, d))
    ELSE Branch(a, "assert a", missing_d(a, b, c))

\* The ratio added in place of multiplied.
scale_by_ratio_divided(value, ratio) ==
    Returned(<<FDiv(value, ratio)>>, <<>>, <<"div">>)
scale_by_ratio_added(value, ratio) ==
    Returned(<<FAdd(value, ratio)>>, <<>>, <<"mul">>)

\* A guard like the other operations': the ratio asserted non-zero.
scale_by_ratio_guarded(value, ratio) ==
    IF ~FNe(ratio, Zero)
    THEN Failed("Division by zero: ratio cannot be zero", <<"assert ratio">>)
    ELSE Returned(<<FMul(value, ratio)>>, <<"assert ratio">>, <<"mul">>)

scale_by_ratio(value, ratio) ==
    Returned(<<FMul(value, ratio)>>, <<>>, <<"mul">>)

\* The quotient upside down: x / y.
direct_k_inverted(x, y) ==
    IF ~FNe(x, Zero)
    THEN Failed("Division by zero: x cannot be zero", <<"assert x">>)
    ELSE Returned(<<FDiv(x, y)>>, <<"assert x">>, <<"div">>)

direct_k(x, y) ==
    IF ~FNe(x, Zero)
    THEN Failed("Division by zero: x cannot be zero", <<"assert x">>)
    ELSE Returned(<<FDiv(y, x)>>, <<"assert x">>, <<"div">>)

\* Each new dimension rounded to a whole number before it is returned.
resize_dimensions_rounded(width, height, scale) ==
    IF ~FGe(width, Zero)
    THEN Failed("Width must be non-negative", <<"assert width">>)
    ELSE IF ~FGe(height, Zero)
    THEN Failed("Height must be non-negative",
                <<"assert width", "assert height">>)
    ELSE IF ~FGt(scale, Zero)
    THEN Failed("Scale factor must be positive",
                <<"assert width", "assert height", "assert scale">>)
    ELSE Returned(<<Rounded(FMul(width, scale)), Rounded(FMul(height, scale))>>,
                  <<"assert width", "assert height", "assert scale">>,
                  <<"mul", "mul">>)

\* Each new dimension computed as soon as its own assert has passed.
resize_dimensions_eager(width, height, scale) ==
    IF ~FGe(width, Zero)
    THEN Failed("Width must be non-negative", <<"assert width">>)
    ELSE IF ~FGe(height, Zero)
    THEN Failed("Height must be non-negative",
                <<"assert width", "mul", "assert height">>)
    ELSE IF ~FGt(scale, Zero)
    THEN Failed("Scale factor must be positive",
                <<"assert width", "mul", "assert height", "mul", "assert scale">>)
    ELSE [failure |-> "",
          result |-> <<FMul(width, scale), FMul(height, scale)>>,
          trail |-> <<"assert width", "mul", "assert height", "mul",
                      "assert scale", "log", "return">>]

\* The scale asserted before the dimensions.
resize_dimensions_scale_first(width, height, scale) ==
    IF ~FGt(scale, Zero)
    THEN Failed("Scale factor must be positive", <<"assert scale">>)
    ELSE IF ~FGe(width, Zero)
    THEN Failed("Width must be non-negative", <<"assert scale", "assert width">>)
    ELSE IF ~FGe(height, Zero)
    THEN Failed("Height must be non-negative",
                <<"assert scale", "assert width", "assert height">>)
    ELSE Returned(<<FMul(width, scale), FMul(height, scale)>>,
                  <<"assert scale", "assert width", "assert height">>,
                  <<"mul", "mul">>)

\* A copied line: the new height computed from the width.
resize_dimensions_copied(width, height, scale) ==
    IF ~FGe(width, Zero)
    THEN Failed("Width must be non-negative", <<"assert width">>)
    ELSE IF ~FGe(height, Zero)
    THEN Failed("Height must be non-negative",
                <<"assert width", "assert height">>)
    ELSE IF ~FGt(scale, Zero)
    THEN Failed("Scale factor must be positive",
                <<"assert width", "assert height", "assert scale">>)
    ELSE Returned(<<FMul(width, scale), FMul(width, scale)>>,
                  <<"assert width", "assert height", "assert scale">>,
                  <<"mul", "mul">>)

resize_dimensions(width, height, scale) ==
    IF ~FGe(width, Zero)
    THEN Failed("Width must be non-negative", <<"assert width">>)
    ELSE IF ~FGe(height, Zero)
    THEN Failed("Height must be non-negative",
                <<"assert width", "assert height">>)
    ELSE IF ~FGt(scale, Zero)
    THEN Failed("Scale factor must be positive",
                <<"assert width", "assert height", "assert scale">>)
    ELSE Returned(<<FMul(width, scale), FMul(height, scale)>>,
                  <<"assert width", "assert height", "assert scale">>,
                  <<"mul", "mul">>)

\* ------------------------------------------------------------------------
\* Inputs: the integers of magnitude up to MaxIn, a value that needs every
\* significant bit, the largest finite value, the smallest subnormal, the
\* infinities and NaN.
\* ------------------------------------------------------------------------
Third == FDiv(Fin(One), Fin(3 * One))
Tiny == Fin(1)
Huge == Fin(MaxFinite)
Floats ==
    {Fin(i * One) : i \in -MaxIn..MaxIn} \cup {Third, Tiny, Huge, PosInf, NegInf, NaN}
OptFloats == Floats \cup {None}

\* ------------------------------------------------------------------------
\* The form handler of the proportion solver. A text field holds None or a
\* string; a string is the sequence of its characters.
\* ------------------------------------------------------------------------
Str(chars) == [k |-> "str", s |-> chars]
Message(text) == [k |-> "text", s |-> text]
DigitVal(char) == CHOOSE digit \in 0..9 : ToString(digit) = char

\* The digits of a decimal literal as one integer, the point skipped.
RECURSIVE DigitsValue(_, _)
DigitsValue(chars, acc) ==
    IF chars = <<>> THEN acc
    ELSE IF Head(chars) = "." THEN DigitsValue(Tail(chars), acc)
    ELSE DigitsValue(Tail(chars), 10 * acc + DigitVal(Head(chars)))
\* The number of digits after the point.
DecimalPlaces(chars) ==
    IF \E i \in 1..Len(chars) : chars[i] = "."
    THEN Len(chars) - (CHOOSE i \in 1..Len(chars) : chars[i] = ".")
    ELSE 0

\* float(text) on a decimal literal [-]digits[.digits]: the float nearest
\* to the decimal value.
float(text) ==
    LET neg == Head(text.s) = "-"
        body == IF neg THEN Tail(text.s) ELSE text.s
    IN  Round(IF neg THEN -1 ELSE 1,
              DigitsValue(body, 0) * One, 10^DecimalPlaces(body))

\* format(x, ".4f"): the decimal with four places nearest to x, ties to
\* even.
Format4f(x) ==
    IF IsNaN(x) THEN "nan"
    ELSE IF IsInf(x) THEN (IF x.n > 0 THEN "inf" ELSE "-inf")
    ELSE LET num == Abs(x.n) * 10000
             q == num \div One
             rem == num - q * One
             up == 2 * rem > One \/ (2 * rem = One /\ q % 2 = 1)
             r == IF up THEN q + 1 ELSE q
             frac == r % 10000
             pad == IF frac < 10 THEN "000"
                    ELSE IF frac < 100 THEN "00"
                    ELSE IF frac < 1000 THEN "0"
                    ELSE ""
         IN  (IF x.n < 0 THEN "-" ELSE "") \o ToString(r \div 10000) \o "."
                 \o pad \o ToString(frac)

\* A field whose number is zero taken as missing too.
a_val_zero_missing(a) ==
    IF a = Str(<<>>) \/ a = None THEN None
    ELSE IF float(a) = Zero THEN None
    ELSE float(a)
\* None if a == "" or a is None else float(a)
a_val(a) == IF a = Str(<<>>) \/ a = None THEN None ELSE float(a)
b_val(b) == a_val(b)
c_val(c) == a_val(c)
d_val(d) == a_val(d)

demo_solve_proportion(a, b, c, d) ==
    LET out == solve_proportion(a_val(a), b_val(b), c_val(c), d_val(d))
    IN  IF out.failure # "" THEN out
        ELSE [failure |-> "",
              result |-> <<Message("Missing value: " \o Format4f(out.result[1]))>>,
              trail |-> out.trail \o <<"format", "return">>]

\* The texts typed into a field: empty, decimal literals ("0" among them,
\* one that is no binary fraction, one beyond the largest finite float).
Texts ==
    {Str(<<>>), Str(<<"0">>), Str(<<"3">>), Str(<<"-", "2">>),
     Str(<<"0", ".", "5">>), Str(<<"0", ".", "1">>), Str(<<"9", "9", "9">>)}
Fields == Texts \cup {None}

\* ------------------------------------------------------------------------
\* The input models (models.py). A model of float fields accepts every
\* float: its constraints are written in the field descriptions only.
\* ProportionInput alone has a validator.
\* ------------------------------------------------------------------------
Accepted == [failure |-> "", result |-> <<>>, trail |-> <<"return">>]

PercentOfInput(part, whole) == Accepted

DirectKInput(x, y) == Accepted

ResizeDimensionsInput(width, height, scale) == Accepted

\* The validator counting the falsy values: a zero counted as missing.
validate_none_count_falsy(values) ==
    Cardinality({i \in 1..Len(values) : values[i] = None \/ FEq(values[i], Zero)})
validate_none_count(values) ==
    Cardinality({i \in 1..Len(values) : values[i] = None})

validate_exactly_one_none(a, b, c, d) ==
    IF validate_none_count(<<a, b, c, d>>) # 1
    THEN Failed("Exactly one value must be None (missing) to solve proportion",
                <<"assert none_count">>)
    ELSE Accepted

ProportionInput(a, b, c, d) == validate_exactly_one_none(a, b, c, d)

\* ------------------------------------------------------------------------
\* Settings (config.py): debug is a boolean; mcp_token is None or a string,
\* of which the checks read the length only.
\* ------------------------------------------------------------------------
MaxToken == 2
Token(len) == [k |-> "str", n |-> len]
Tokens == {None} \cup {Token(len) : len \in 0..MaxToken}
\* Python's truth value of an Optional[str].
Truthy(v) == v.k = "str" /\ v.n > 0

is_production(debug, mcp_token) == ~debug /\ mcp_token # None

\* The token asserted whenever debug is off, absent or not.
validate_production_settings_strict(debug, mcp_token) ==
    IF ~debug
    THEN IF Truthy(mcp_token)
         THEN Accepted
         ELSE Failed("MCP_TOKEN environment variable is required for production deployment",
                     <<"assert mcp_token">>)
    ELSE Accepted
validate_production_settings(debug, mcp_token) ==
    IF is_production(debug, mcp_token)
    THEN IF Truthy(mcp_token)
         THEN [Accepted EXCEPT !.trail = <<"assert mcp_token", "return">>]
         ELSE Failed("MCP_TOKEN environment variable is required for production deployment",
                     <<"assert mcp_token">>)
    ELSE Accepted

\* ------------------------------------------------------------------------
\* State: one caller of the core; the call it made and how the call ended.
\* A caller may feed the dimensions a resize returned into the next resize:
\* chain counts these calls, origin holds the arguments of the first.
\*
\* Concurrent callers: frame[p] is the activation of caller p (the
\* operation, its arguments, the statements executed so far, its local
\* result, its outcome); lastlog is the record the shared logger wrote
\* last.
\* ------------------------------------------------------------------------
VARIABLES pc, op, args, failure, result, trail, chain, origin, frame, lastlog
vars == <<pc, op, args, failure, result, trail, chain, origin, frame, lastlog>>

NCallers == 2
Callers == 1..NCallers
NoFrame ==
    [pc |-> "idle", op |-> "", args |-> <<>>, pos |-> 0, locals |-> <<>>,
     failure |-> "", result |-> <<>>]
NoLog == [op |-> "", result |-> <<>>]

Init ==
    /\ pc = "idle"
    /\ op = ""
    /\ args = <<>>
    /\ failure = ""
    /\ result = <<>>
    /\ trail = <<>>
    /\ chain = 0
    /\ origin = <<>>
    /\ frame = [p \in Callers |-> NoFrame]
    /\ lastlog = NoLog

Ends(name, actuals, out) ==
    /\ UNCHANGED <<frame, lastlog>>
    /\ pc' = "ended"
    /\ op' = name
    /\ args' = actuals
    /\ failure' = out.failure
    /\ result' = out.result
    /\ trail' = out.trail

Call_percent_of ==
    /\ pc = "idle"
    /\ UNCHANGED <<chain, origin>>
    /\ \E part, whole \in Floats :
          Ends("percent_of", <<part, whole>>, percent_of(part, whole))

Call_solve_proportion ==
    /\ pc = "idle"
    /\ UNCHANGED <<chain, origin>>
    /\ \E a, b, c, d \in OptFloats :
          Ends("solve_proportion", <<a, b, c, d>>, solve_proportion(a, b, c, d))

Call_scale_by_ratio ==
    /\ pc = "idle"
    /\ UNCHANGED <<chain, origin>>
    /\ \E value, ratio \in Floats :
          Ends("scale_by_ratio", <<value, ratio>>, scale_by_ratio(value, ratio))

Call_direct_k ==
    /\ pc = "idle"
    /\ UNCHANGED <<chain, origin>>
    /\ \E x, y \in Floats :
          Ends("direct_k", <<x, y>>, direct_k(x, y))

Call_resize_dimensions ==
    /\ pc = "idle"
    /\ \E width, height, scale \in Floats :
          /\ Ends("resize_dimensions", <<width, height, scale>>,
                  resize_dimensions(width, height, scale))
          /\ origin' = <<width, height, scale>>
    /\ chain' = 0

\* The caller resizes the dimensions it got back, by the same scale.
Call_resize_dimensions_again ==
    /\ pc = "ended"
    /\ op = "resize_dimensions"
    /\ failure = ""
    /\ chain < MaxChain
    /\ Ends("resize_dimensions", <<result[1], result[2], args[3]>>,
            resize_dimensions(result[1], result[2], args[3]))
    /\ chain' = chain + 1
    /\ UNCHANGED origin

\* The form of the proportion solver is submitted.
Call_demo_solve_proportion ==
    /\ pc = "idle"
    /\ UNCHANGED <<chain, origin>>
    /\ \E a, b, c, d \in Fields :
          Ends("demo_solve_proportion", <<a, b, c, d>>,
               demo_solve_proportion(a, b, c, d))

\* The caller constructs an input model from float fields.
Construct_PercentOfInput ==
    /\ pc = "idle"
    /\ UNCHANGED <<chain, origin>>
    /\ \E part, whole \in Floats :
          Ends("PercentOfInput", <<part, whole>>, PercentOfInput(part, whole))

Construct_ProportionInput ==
    /\ pc = "idle"
    /\ UNCHANGED <<chain, origin>>
    /\ \E a, b, c, d \in OptFloats :
          Ends("ProportionInput", <<a, b, c, d>>, ProportionInput(a, b, c, d))

Construct_DirectKInput ==
    /\ pc = "idle"
    /\ UNCHANGED <<chain, origin>>
    /\ \E x, y \in Floats :
          Ends("DirectKInput", <<x, y>>, DirectKInput(x, y))

Construct_ResizeDimensionsInput ==
    /\ pc = "idle"
    /\ UNCHANGED <<chain, origin>>
    /\ \E width, height, scale \in Floats :
          Ends("ResizeDimensionsInput", <<width, height, scale>>,
               ResizeDimensionsInput(width, height, scale))

Call_validate_production_settings ==
    /\ pc = "idle"
    /\ UNCHANGED <<chain, origin>>
    /\ \E debug \in BOOLEAN, mcp_token \in Tokens :
          Ends("validate_production_settings", <<debug, mcp_token>>,
               validate_production_settings(debug, mcp_token))

\* The caller takes the outcome; the core keeps nothing of the call.
Finish ==
    /\ pc = "ended"
    /\ pc' = "idle"
    /\ op' = ""
    /\ args' = <<>>
    /\ failure' = ""
    /\ result' = <<>>
    /\ trail' = <<>>
    /\ chain' = 0
    /\ origin' = <<>>
    /\ UNCHANGED <<frame, lastlog>>

Next ==
    \/ Call_percent_of
    \/ Call_solve_proportion
    \/ Call_scale_by_ratio
    \/ Call_direct_k
    \/ Call_resize_dimensions
    \/ Call_resize_dimensions_again
    \/ Call_demo_solve_proportion
    \/ Construct_PercentOfInput
    \/ Construct_ProportionInput
    \/ Construct_DirectKInput
    \/ Construct_ResizeDimensionsInput
    \/ Call_validate_production_settings
    \/ Finish

Spec == Init /\ [][Next]_vars

\* ------------------------------------------------------------------------
\* Concurrent callers, one statement of one caller at a time.
\* ------------------------------------------------------------------------
\* The operation a caller invokes.
Apply(name, actuals) ==
    IF name = "percent_of" THEN percent_of(actuals[1], actuals[2])
    ELSE IF name = "solve_proportion"
    THEN solve_proportion(actuals[1], actuals[2], actuals[3], actuals[4])
    ELSE IF name = "scale_by_ratio" THEN scale_by_ratio(actuals[1], actuals[2])
    ELSE IF name = "direct_k" THEN direct_k(actuals[1], actuals[2])
    ELSE resize_dimensions(actuals[1], actuals[2], actuals[3])

\* The calls of the concurrent callers: for each operation one that
\* succeeds, and calls that fail at each kind of check.
ConcCalls ==
    {<<"percent_of", <<Fin(One), Fin(2 * One)>> >>,
     <<"percent_of", <<Fin(One), Zero>> >>,
     <<"solve_proportion", <<Fin(3 * One), Fin(2 * One), None, Fin(One)>> >>,
     <<"solve_proportion", <<None, Fin(2 * One), None, Fin(One)>> >>,
     <<"solve_proportion", <<Fin(One), None, Zero, Fin(One)>> >>,
     <<"scale_by_ratio", <<Fin(3 * One), Third>> >>,
     <<"direct_k", <<Fin(2 * One), Fin(3 * One)>> >>,
     <<"resize_dimensions", <<Fin(One), Fin(2 * One), Fin(3 * One)>> >>,
     <<"resize_dimensions", <<Fin(One), Fin(-One), Fin(3 * One)>> >>}

\* The statements of caller p's call, in the order it executes them, and
\* the one it is at.
Statements(p) == Apply(frame[p].op, frame[p].args).trail
NextStatement(p) == Statements(p)[frame[p].pos + 1]
Running(p, kinds) ==
    /\ frame[p].pc = "running"
    /\ NextStatement(p) \in kinds
IsLast(p) == frame[p].pos + 1 = Len(Statements(p))
Raises(p) ==
    [frame[p] EXCEPT !.pc = "ended", !.pos = @ + 1,
                      !.failure = Apply(frame[p].op, frame[p].args).failure]

\* The value a call returns, taken from the last record of the logger.
ReturnValue_logged(p) == lastlog.result
\* The value a call returns: its own local result.
ReturnValue(p) == frame[p].locals

Enter(p) ==
    /\ frame[p].pc = "idle"
    /\ \E call \in ConcCalls :
          frame' = [frame EXCEPT ![p] =
                       [NoFrame EXCEPT !.pc = "running", !.op = call[1],
                                       !.args = call[2]]]
    /\ UNCHANGED <<pc, op, args, failure, result, trail, chain, origin, lastlog>>

\* One assert: the call ends there if it fails.
Check(p) ==
    /\ Running(p, {"assert whole", "assert none_count", "assert a", "assert b",
                   "assert c", "assert d", "assert x", "assert width",
                   "assert height", "assert scale"})
    /\ frame' = [frame EXCEPT ![p] =
                    IF IsLast(p) THEN Raises(p) ELSE [@ EXCEPT !.pos = @ + 1]]
    /\ UNCHANGED <<pc, op, args, failure, result, trail, chain, origin, lastlog>>

\* One multiplication or division; the last one leaves the local result.
Compute(p) ==
    /\ Running(p, {"mul", "div"})
    /\ frame' = [frame EXCEPT ![p] =
                    IF IsLast(p) THEN Raises(p)
                    ELSE IF Statements(p)[frame[p].pos + 2] \in {"mul", "div"}
                    THEN [@ EXCEPT !.pos = @ + 1]
                    ELSE [@ EXCEPT !.pos = @ + 1,
                                   !.locals = Apply(frame[p].op, frame[p].args).result]]
    /\ UNCHANGED <<pc, op, args, failure, result, trail, chain, origin, lastlog>>

\* logger.debug: the shared logger takes the record.
Log(p) ==
    /\ Running(p, {"log"})
    /\ lastlog' = [op |-> frame[p].op, result |-> frame[p].locals]
    /\ frame' = [frame EXCEPT ![p].pos = @ + 1]
    /\ UNCHANGED <<pc, op, args, failure, result, trail, chain, origin>>

Return(p) ==
    /\ Running(p, {"return"})
    /\ frame' = [frame EXCEPT ![p].pc = "ended", ![p].pos = @ + 1,
                               ![p].result = ReturnValue(p)]
    /\ UNCHANGED <<pc, op, args, failure, result, trail, chain, origin, lastlog>>

\* The caller takes the outcome and the activation is gone.
Leave(p) ==
    /\ frame[p].pc = "ended"
    /\ frame' = [frame EXCEPT ![p] = NoFrame]
    /\ UNCHANGED <<pc, op, args, failure, result, trail, chain, origin, lastlog>>

NextConc ==
    \E p \in Callers :
        \/ Enter(p)
        \/ Check(p)
        \/ Compute(p)
        \/ Log(p)
        \/ Return(p)
        \/ Leave(p)

SpecConc == Init /\ [][NextConc]_vars

TypeOK ==
    /\ pc \in {"idle", "ended"}
    /\ \A i \in 1..Len(result) : IsNumber(result[i]) \/ result[i].k = "text"

\* ------------------------------------------------------------------------
\* Properties
\* ------------------------------------------------------------------------
Ended(name) == pc = "ended" /\ op = name
MissingSlots == {i \in 1..Len(args) : args[i] = None}
OneMissing == Ended("solve_proportion") /\ Cardinality(MissingSlots) = 1
\* The divisor of the branch that the missing slot selects.
Divisor ==
    IF args[1] = None THEN args[4]
    ELSE IF args[2] = None THEN args[3]
    ELSE IF args[3] = None THEN args[2]
    ELSE args[1]
MsgMissingCount == "Exactly one value must be None"
MsgDenominator == "Division by zero: denominator"

\* C1: with exactly one of a, b, c, d missing and a non-zero divisor for
\* that branch, solve_proportion returns (b*c)/d when a is missing, (a*d)/c
\* when b is missing, (a*d)/b when c is missing, (b*c)/a when d is missing.
C1_SolvesMissingTerm ==
    OneMissing =>
        LET a == args[1]
            b == args[2]
            c == args[3]
            d == args[4]
        IN  /\ (a = None /\ FNe(d, Zero)) =>
                    (failure = "" /\ result = <<FDiv(FMul(b, c), d)>>)
            /\ (b = None /\ FNe(c, Zero)) =>
                    (failure = "" /\ result = <<FDiv(FMul(a, d), c)>>)
            /\ (c = None /\ FNe(b, Zero)) =>
                    (failure = "" /\ result = <<FDiv(FMul(a, d), b)>>)
            /\ (d = None /\ FNe(a, Zero)) =>
                    (failure = "" /\ result = <<FDiv(FMul(b, c), a)>>)

\* A call with b missing that returned a non-zero finite value.
C1_Witness ==
    /\ OneMissing
    /\ args[2] = None
    /\ failure = ""
    /\ IsFin(result[1]) /\ result[1].n # 0

\* C2: with 0, 2, 3 or 4 arguments missing solve_proportion fails with
\* "Exactly one value must be None"; the count is checked first, so a zero
\* among the supplied values changes nothing, and no arithmetic is done.
C2_MissingCountFirst ==
    (Ended("solve_proportion") /\ Cardinality(MissingSlots) # 1) =>
        /\ failure = MsgMissingCount
        /\ result = <<>>
        /\ trail = <<"assert none_count">>

\* Two slots missing and a zero in the slot a zero-denominator check would
\* read.
C2_Witness ==
    /\ Ended("solve_proportion")
    /\ args[1] = None /\ args[2] = None /\ args[4] = Zero
    /\ failure = MsgMissingCount

Solved == [i \in 1..4 |-> IF args[i] = None THEN result[1] ELSE args[i]]
\* a*d and b*c as a caller evaluates them after the substitution.
SolvedAD == FMul(Solved[1], Solved[4])
SolvedBC == FMul(Solved[2], Solved[3])
\* The cross product of the two supplied terms, and the one that holds the
\* returned value.
KnownProduct == IF MissingSlots \subseteq {1, 4} THEN SolvedBC ELSE SolvedAD
SolvedProduct == IF MissingSlots \subseteq {1, 4} THEN SolvedAD ELSE SolvedBC
IsNormal(x) == IsFin(x) /\ Abs(x.n) >= MinNormal
\* No overflow and no underflow on the way: the supplied terms are finite,
\* the known product is normal (or exactly zero, a factor being zero), the
\* returned quotient is normal (or zero with a zero product), and the
\* product with the returned value is finite.
C4_InRange ==
    /\ \A i \in 1..4 : args[i] = None \/ IsFin(args[i])
    /\ \/ IsNormal(KnownProduct)
       \/ \E i \in 1..4 : args[i] = Zero
    /\ IsNormal(result[1]) \/ (result[1] = Zero /\ KnownProduct = Zero)
    /\ IsFin(SolvedProduct)

\* C4 as stated, on the calls with finite terms and no overflow or
\* underflow: after a successful call with one slot missing, the four terms
\* with the returned value substituted satisfy a*d == b*c.
C4_ExactResubstitution ==
    (OneMissing /\ failure = "" /\ C4_InRange) => FEq(SolvedAD, SolvedBC)

\* C4, amended: the substituted terms satisfy a*d == b*c within rounding.
\* With no overflow and no underflow, the two products differ by at most
\* 4 * 2^-Precision of the known product, whichever slot was missing.
C4_ResubstitutionWithinRounding ==
    (OneMissing /\ failure = "" /\ C4_InRange) =>
        Abs(SolvedAD.n - SolvedBC.n) * 2^Precision <= 4 * Abs(KnownProduct.n)

\* A call with c missing whose result, substituted, misses a*d by a rounding
\* error.
C4_Witness ==
    /\ OneMissing /\ failure = "" /\ C4_InRange
    /\ args[3] = None
    /\ SolvedAD # SolvedBC

MsgWhole == "Division by zero: whole cannot be zero"
MsgX == "Division by zero: x cannot be zero"
MsgWidth == "Width must be non-negative"
MsgHeight == "Height must be non-negative"
MsgScale == "Scale factor must be positive"
FLt(x, y) == FGt(y, x)
FLe(x, y) == FGe(y, x)

\* C5: percent_of(part, whole) fails with "Division by zero: whole cannot
\* be zero" if and only if whole is zero, whatever part is; for every other
\* whole, negative ones too, it returns (part / whole) * 100, unrounded.
C5_PercentOf ==
    Ended("percent_of") =>
        /\ failure = MsgWhole <=> FEq(args[2], Zero)
        /\ FNe(args[2], Zero) =>
               /\ failure = ""
               /\ result = <<FMul(FDiv(args[1], args[2]), Hundred)>>

\* A negative whole and a percentage that is no whole number.
C5_Witness ==
    /\ Ended("percent_of")
    /\ FLt(args[2], Zero)
    /\ failure = ""
    /\ IsFin(result[1]) /\ result[1].n % One # 0

\* C6: resize_dimensions checks width, then height, then scale, and the
\* first violated precondition is the one reported: width < 0 reports the
\* width whatever height and scale are; width >= 0 and height < 0 reports
\* the height whatever scale is; the scale is reported only with
\* width >= 0 and height >= 0.
C6_CheckOrder ==
    Ended("resize_dimensions") =>
        LET width == args[1]
            height == args[2]
            scale == args[3]
            order == <<"assert width", "assert height", "assert scale">>
        IN  /\ FLt(width, Zero) => failure = MsgWidth
            /\ (FGe(width, Zero) /\ FLt(height, Zero)) => failure = MsgHeight
            /\ failure = MsgScale => (FGe(width, Zero) /\ FGe(height, Zero))
            /\ (FGe(width, Zero) /\ FGe(height, Zero) /\ FLe(scale, Zero)) =>
                   failure = MsgScale
            /\ \A i \in 1..Len(trail) : i <= 3 => trail[i] = order[i]
            /\ failure # "" => trail[Len(trail)] \in {order[1], order[2], order[3]}

\* All three preconditions violated at once; the width is reported.
C6_Witness ==
    /\ Ended("resize_dimensions")
    /\ FLt(args[1], Zero) /\ FLt(args[2], Zero) /\ FLe(args[3], Zero)
    /\ failure = MsgWidth

\* C7: for every width >= 0, height >= 0 and scale > 0, a zero width or
\* height included, resize_dimensions does not fail and returns exactly
\* (width * scale, height * scale).
C7_ResizeReturnsScaledPair ==
    (/\ Ended("resize_dimensions")
     /\ FGe(args[1], Zero) /\ FGe(args[2], Zero) /\ FGt(args[3], Zero)) =>
        /\ failure = ""
        /\ result = <<FMul(args[1], args[3]), FMul(args[2], args[3])>>

\* A zero width with a positive height, resized.
C7_Witness ==
    /\ Ended("resize_dimensions")
    /\ args[1] = Zero /\ FGt(args[2], Zero) /\ FGt(args[3], Zero)
    /\ failure = ""
    /\ result[1] = Zero /\ result[2] # Zero

\* C8 as stated: direct_k(x, y) fails with "Division by zero: x cannot be
\* zero" if and only if x is zero, whatever y is; for every x != 0 it
\* returns y / x, so direct_k(x, 0) is 0 for every x != 0.
C8_DirectKZeroForEveryNonZeroX ==
    Ended("direct_k") =>
        /\ failure = MsgX <=> FEq(args[1], Zero)
        /\ FNe(args[1], Zero) => (failure = "" /\ result = <<FDiv(args[2], args[1])>>)
        /\ (FNe(args[1], Zero) /\ FEq(args[2], Zero)) => FEq(result[1], Zero)

\* C8, amended: the same, with direct_k(x, 0) equal to 0 for every x that
\* is neither zero nor NaN (NaN != 0 holds, and direct_k(NaN, 0) is NaN).
C8_DirectK ==
    Ended("direct_k") =>
        /\ failure = MsgX <=> FEq(args[1], Zero)
        /\ FNe(args[1], Zero) => (failure = "" /\ result = <<FDiv(args[2], args[1])>>)
        /\ (FNe(args[1], Zero) /\ ~IsNaN(args[1]) /\ FEq(args[2], Zero)) =>
               FEq(result[1], Zero)

\* direct_k of a negative x and y = 0 returned 0.
C8_Witness ==
    /\ Ended("direct_k")
    /\ FLt(args[1], Zero) /\ args[2] = Zero
    /\ failure = "" /\ result = <<Zero>>

\* C9: scale_by_ratio has no preconditions: for every value and ratio,
\* zero and negative ones included, it does not fail and returns
\* value * ratio.
C9_ScaleByRatioTotal ==
    Ended("scale_by_ratio") =>
        /\ failure = ""
        /\ result = <<FMul(args[1], args[2])>>

\* A negative value scaled by a zero ratio.
C9_Witness ==
    /\ Ended("scale_by_ratio")
    /\ FLt(args[1], Zero) /\ args[2] = Zero
    /\ failure = "" /\ result = <<Zero>>

\* scale_by_ratio(v1 + v2, r) and scale_by_ratio(v1, r) + scale_by_ratio(v2, r)
\* for the call scale_by_ratio(v1, r) that ended and a second value v2; the
\* sums are the caller's float additions.
ScaledSum(v2) == scale_by_ratio(FAdd(args[1], v2), args[2]).result[1]
SumOfScaled(v2) == FAdd(result[1], scale_by_ratio(v2, args[2]).result[1])
\* A product that neither overflowed nor underflowed: finite, and normal
\* unless a factor is zero.
ProductInRange(p, x, y) == IsFin(p) /\ (IsNormal(p) \/ x = Zero \/ y = Zero)
\* Finite v1, v2 and r; no overflow anywhere, no underflow in v1*r, v2*r.
C10_InRange(v2) ==
    /\ IsFin(args[1]) /\ IsFin(v2) /\ IsFin(args[2])
    /\ ProductInRange(result[1], args[1], args[2])
    /\ ProductInRange(scale_by_ratio(v2, args[2]).result[1], v2, args[2])
    /\ IsFin(FAdd(args[1], v2))
    /\ IsFin(ScaledSum(v2))
    /\ IsFin(SumOfScaled(v2))

\* C10 as stated, on finite values with no overflow or underflow:
\* scale_by_ratio(v1 + v2, r) == scale_by_ratio(v1, r) + scale_by_ratio(v2, r)
\* for all v1, v2, r, and scale_by_ratio(v, 1) == v for all v.
C10_ExactLinearity ==
    Ended("scale_by_ratio") =>
        /\ \A v2 \in Floats :
               C10_InRange(v2) => FEq(ScaledSum(v2), SumOfScaled(v2))
        /\ (IsFin(args[1]) /\ args[2] = Fin(One)) => FEq(result[1], args[1])

\* C10, amended: scale_by_ratio(v, 1) returns v for every v, and
\* scale_by_ratio is linear in value within rounding: with no overflow and
\* no underflow the two sides differ by at most 8 * 2^-Precision of
\* |scale_by_ratio(v1, r)| + |scale_by_ratio(v2, r)|.
C10_LinearWithinRounding ==
    Ended("scale_by_ratio") =>
        /\ \A v2 \in Floats :
               C10_InRange(v2) =>
                   Abs(ScaledSum(v2).n - SumOfScaled(v2).n) * 2^Precision
                       <= 8 * (Abs(result[1].n)
                                 + Abs(scale_by_ratio(v2, args[2]).result[1].n))
        /\ args[2] = Fin(One) => (failure = "" /\ result = <<args[1]>>)

\* A call whose result, for some in-range v2, makes the two sides of the
\* linearity equation differ.
C10_Witness ==
    /\ Ended("scale_by_ratio")
    /\ \E v2 \in Floats : C10_InRange(v2) /\ ScaledSum(v2) # SumOfScaled(v2)

\* C11: a scale of 1 is the identity of resize_dimensions: for every
\* width >= 0 and height >= 0, resize_dimensions(width, height, 1) returns
\* (width, height), and feeding the result back with scale 1, any number of
\* times, succeeds and still returns (width, height).
C11_ScaleOneIsIdentity ==
    (/\ Ended("resize_dimensions")
     /\ Len(origin) = 3
     /\ FGe(origin[1], Zero) /\ FGe(origin[2], Zero) /\ origin[3] = Fin(One)) =>
        /\ failure = ""
        /\ result = <<origin[1], origin[2]>>

\* The result of a resize by 1 fed back as often as the chain allows, with
\* a width that needs every significant bit.
C11_Witness ==
    /\ Ended("resize_dimensions")
    /\ chain = MaxChain
    /\ origin = <<Third, Huge, Fin(One)>>
    /\ result = <<Third, Huge>>

CoreOps ==
    {"percent_of", "solve_proportion", "scale_by_ratio", "direct_k",
     "resize_dimensions"}
CoreEnded == pc = "ended" /\ op \in CoreOps
IsAssert(stmt) ==
    stmt \in {"assert whole", "assert none_count", "assert a", "assert b",
              "assert c", "assert d", "assert x", "assert width",
              "assert height", "assert scale"}
IsArith(stmt) == stmt \in {"mul", "div"}

\* C13: in each of the five operations every precondition check comes
\* before any arithmetic, and a failing call is atomic: it yields no result
\* value, not even a partial one, and writes no trace record; the trace
\* record is written only by a call that succeeds, after its result has
\* been computed.
C13_ChecksFirstFailureAtomic ==
    CoreEnded =>
        /\ \A i, j \in 1..Len(trail) :
               (IsArith(trail[i]) /\ IsAssert(trail[j])) => j < i
        /\ failure # "" =>
               /\ result = <<>>
               /\ \A i \in 1..Len(trail) : ~IsArith(trail[i]) /\ trail[i] # "log"
        /\ (\E i \in 1..Len(trail) : trail[i] = "log") =>
               /\ failure = ""
               /\ result # <<>>
               /\ \A i, j \in 1..Len(trail) :
                      (trail[i] = "log" /\ IsArith(trail[j])) => j < i

\* A resize with a valid width and scale and only the height invalid: no
\* new width came out of it.
C13_Witness ==
    /\ Ended("resize_dimensions")
    /\ FGt(args[1], Zero) /\ FLt(args[2], Zero) /\ FGt(args[3], Zero)
    /\ failure = MsgHeight
    /\ result = <<>>

\* The kind of a failure, by its message.
KindOf(msg) ==
    IF msg \in {MsgWhole, MsgDenominator, MsgX} THEN "ZeroDenominator"
    ELSE IF msg = MsgMissingCount THEN "InvalidMissingCount"
    ELSE IF msg \in {MsgWidth, MsgHeight} THEN "NegativeDimension"
    ELSE IF msg = MsgScale THEN "NonPositiveScale"
    ELSE "Other"
\* The kinds listed for each operation.
KindsOf(name) ==
    IF name \in {"percent_of", "direct_k"} THEN {"ZeroDenominator"}
    ELSE IF name = "solve_proportion"
    THEN {"ZeroDenominator", "InvalidMissingCount"}
    ELSE IF name = "resize_dimensions"
    THEN {"NegativeDimension", "NonPositiveScale"}
    ELSE {}

\* C14: every call of a core operation on numeric inputs (the missing
\* marker only in solve_proportion's slots) ends either in a numeric result
\* or in one failure of the kinds ZeroDenominator, InvalidMissingCount,
\* NegativeDimension, NonPositiveScale, never in another kind of failure,
\* and each operation reports only the kinds listed for it.
C14_ResultOrListedFailure ==
    CoreEnded =>
        \/ /\ failure = ""
           /\ Len(result) = (IF op = "resize_dimensions" THEN 2 ELSE 1)
           /\ \A i \in 1..Len(result) : IsNumber(result[i])
        \/ /\ failure # ""
           /\ result = <<>>
           /\ KindOf(failure) \in KindsOf(op)

\* A solve_proportion call that ended in ZeroDenominator with the
\* divisor zero and a supplied value infinite.
C14_Witness ==
    /\ OneMissing
    /\ Divisor = Zero
    /\ \E i \in 1..4 : IsInf(args[i])
    /\ KindOf(failure) = "ZeroDenominator"

\* scale_by_ratio(x, direct_k(x, y)) for the call direct_k(x, y) that ended,
\* and direct_k(x, scale_by_ratio(x, r)) for the call scale_by_ratio(x, r)
\* that ended.
ScaledByK == scale_by_ratio(args[1], result[1]).result
KOfScaled == direct_k(args[1], result[1]).result
\* Finite x != 0 and y (or r), y (or r) normal or zero, and neither
\* overflow nor underflow in the first operation, nor overflow in the way
\* back.
C16_InRange(back) ==
    /\ IsFin(args[1]) /\ args[1] # Zero
    /\ IsNormal(args[2]) \/ args[2] = Zero
    /\ failure = ""
    /\ IsNormal(result[1]) \/ args[2] = Zero
    /\ Len(back) = 1 => IsFin(back[1])

ScaledByQuotient == scale_by_ratio(args[1], FDiv(args[4], args[2])).result
\* c is the missing slot and the call succeeded.
SolvedC == OneMissing /\ args[3] = None /\ failure = ""
\* Finite v, old and new, and neither overflow nor underflow in v * new,
\* (v * new) / old, new / old or v * (new / old).
C17_InRange ==
    /\ IsFin(args[1]) /\ IsFin(args[2]) /\ IsFin(args[4])
    /\ ProductInRange(FMul(args[1], args[4]), args[1], args[4])
    /\ ProductInRange(result[1], args[1], args[4])
    /\ IsNormal(FDiv(args[4], args[2])) \/ args[4] = Zero
    /\ Len(ScaledByQuotient) = 1
    /\ ProductInRange(ScaledByQuotient[1], args[1], args[4])

\* C17 as stated, on finite values with no overflow or underflow: for
\* every v, every old != 0 and every new, scale_by_ratio(v, new / old)
\* equals solve_proportion(v, old, missing, new).
C17_ExactAgreement ==
    (SolvedC /\ C17_InRange) => FEq(ScaledByQuotient[1], result[1])

\* C17, amended: scaling agrees with the solver's c-missing branch within
\* rounding. For finite v, old != 0 and new, with no overflow and no
\* underflow, scale_by_ratio(v, new / old) and solve_proportion(v, old,
\* missing, new) differ by at most 8 * 2^-Precision of the solver's result.
C17_AgreementWithinRounding ==
    (SolvedC /\ C17_InRange) =>
        Abs(ScaledByQuotient[1].n - result[1].n) * 2^Precision
            <= 8 * Abs(result[1].n)

\* A c-missing call in range whose result differs from the scaling by the
\* quotient.
C17_Witness ==
    /\ SolvedC /\ C17_InRange
    /\ ScaledByQuotient[1] # result[1]

\* C18 as stated: the input models enforce the constraints their field
\* descriptions state: PercentOfInput with whole = 0, DirectKInput with
\* x = 0 and ResizeDimensionsInput with width < 0, height < 0 or scale <= 0
\* are rejected, so every input a model accepts is one the corresponding
\* core operation accepts.
C18_ModelsEnforceDescriptions ==
    /\ Ended("PercentOfInput") =>
           /\ FEq(args[2], Zero) => failure # ""
           /\ failure = "" => percent_of(args[1], args[2]).failure = ""
    /\ Ended("DirectKInput") =>
           /\ FEq(args[1], Zero) => failure # ""
           /\ failure = "" => direct_k(args[1], args[2]).failure = ""
    /\ Ended("ResizeDimensionsInput") =>
           /\ (FLt(args[1], Zero) \/ FLt(args[2], Zero) \/ FLe(args[3], Zero)) =>
                  failure # ""
           /\ failure = "" =>
                  resize_dimensions(args[1], args[2], args[3]).failure = ""

\* C19: ProportionInput's validator and solve_proportion's first check
\* accept the same argument shapes: for every assignment of a, b, c, d to a
\* number or missing, constructing ProportionInput succeeds if and only if
\* solve_proportion does not fail with the missing-count error; both count
\* a zero value as present.
C19_ValidatorMatchesFirstCheck ==
    /\ Ended("ProportionInput") =>
           (failure = "" <=>
               solve_proportion(args[1], args[2], args[3], args[4]).failure
                   # MsgMissingCount)
    /\ Ended("solve_proportion") =>
           (failure # MsgMissingCount <=>
               ProportionInput(args[1], args[2], args[3], args[4]).failure = "")

\* A ProportionInput with one field missing and two fields zero,
\* constructed.
C19_Witness ==
    /\ Ended("ProportionInput")
    /\ Cardinality(MissingSlots) = 1
    /\ Cardinality({i \in 1..4 : args[i] = Zero}) = 2
    /\ failure = ""

\* C20: validate_production_settings fails if and only if debug is false
\* and mcp_token is the empty string; with mcp_token absent is_production()
\* is false and validation passes for every debug; and whenever validation
\* passes with is_production() true, mcp_token is a non-empty string.
C20_ProductionNeedsToken ==
    Ended("validate_production_settings") =>
        LET debug == args[1]
            mcp_token == args[2]
        IN  /\ failure # "" <=> (debug = FALSE /\ mcp_token = Token(0))
            /\ mcp_token = None =>
                   (~is_production(debug, mcp_token) /\ failure = "")
            /\ (failure = "" /\ is_production(debug, mcp_token)) =>
                   (mcp_token.k = "str" /\ mcp_token.n > 0)

\* Debug off and no token at all: not production, validation passed.
C20_Witness ==
    /\ Ended("validate_production_settings")
    /\ args = <<FALSE, None>>
    /\ failure = ""

\* The fields of the submitted form that are the empty string or None, and
\* the solver's outcome on the fields converted.
EmptyFields == {i \in 1..Len(args) : args[i] = Str(<<>>) \/ args[i] = None}
Converted(i) == IF i \in EmptyFields THEN None ELSE float(args[i])
SolvedConverted ==
    solve_proportion(Converted(1), Converted(2), Converted(3), Converted(4))

\* C15: demo_solve_proportion treats a field as the missing marker if and
\* only if it is the empty string or None; a numeric string, "0" included,
\* is converted to its number and is not counted as missing. For every
\* combination of four such fields the outcome is the failure, or the
\* formatted result, of solve_proportion on the converted values.
C15_FormHandlerRefinesSolver ==
    Ended("demo_solve_proportion") =>
        /\ failure = SolvedConverted.failure
        /\ failure = MsgMissingCount <=> Cardinality(EmptyFields) # 1
        /\ failure # "" => result = <<>>
        /\ failure = "" =>
               result = <<Message("Missing value: "
                                     \o Format4f(SolvedConverted.result[1]))>>
        /\ \A i \in 1..4 : args[i] = Str(<<"0">>) => Converted(i) = Zero

\* A form with a = "0", c empty and the other fields non-zero numbers:
\* the handler answered zero.
C15_Witness ==
    /\ Ended("demo_solve_proportion")
    /\ args[1] = Str(<<"0">>)
    /\ EmptyFields = {3}
    /\ args[2] = Str(<<"0", ".", "1">>)
    /\ failure = ""
    /\ result = <<Message("Missing value: 0.0000")>>

=============================================================================
